---- MODULE Spec2Model ----
(***************************************************************************)
(* Book-catalog REST backend: routes/auth.js (signup, login),              *)
(* routes/books.js (list, bestrating, create, get, update, delete, rate),  *)
(* middleware/auth.js (bearer-token check) and utils/imageProcessor.js.    *)
(*                                                                         *)
(* A handler runs in steps, the first one on receiving the request.  One   *)
(* step is the synchronous code up to and including the next call on the   *)
(* book store, the user store or the image directory, so that steps of     *)
(* different requests interleave exactly where the handlers suspend on a   *)
(* shared resource.  Calls that touch no shared state (startSession,       *)
(* abortTransaction, bcrypt) are folded into the step that issues them,    *)
(* with both of their outcomes.                                            *)
(*                                                                         *)
(* averageRating is a JavaScript number sum/length; it is modelled as the  *)
(* reduced fraction <<numerator, denominator>>.                            *)
(***************************************************************************)
EXTENDS Integers, Sequences, FiniteSets, Bags, TLC

VARIABLES
    books,      \* Book collection: _id -> document
    files,      \* names of the files present in the images directory
    nextBook,   \* next _id the store assigns
    nextFile,   \* next `${Date.now()}-${originalname}` file name
    unlinks,    \* fs.unlink calls issued and not yet completed
    users,      \* User collection: set of [email, password] documents
    inflight,   \* bag of the requests received and not yet finished
    last,       \* the request that finished last, with its response
    top         \* body of the last 200 response of GET /bestrating

vars == <<books, files, nextBook, nextFile, unlinks, users, inflight, last, top>>

(***************************************************************************)
(* Bounds of the model.                                                    *)
(***************************************************************************)
MaxBooks == 1       \* book documents ever created in one behaviour
MaxFiles == 1       \* image files ever written in one behaviour
MaxRatings == 2     \* ratings entries pushed and being pushed at any time
MaxInFlight == 2    \* requests being handled at the same time
MaxStored == 4      \* books in the store a read-only behaviour starts from

(***************************************************************************)
(* Inputs.                                                                 *)
(***************************************************************************)
Users == {1, 2, 3}                  \* userIds carried by tokens
Grades == {-1, 4, 5, 6}             \* req.body.rating
BookIds == 1..MaxBooks
Emails == {"a@x", "b@x", "c@x"}
Passwords == {0, 1, 2}              \* 0 stands for a missing password

NoDetails == [none |-> TRUE]
\* req.body.book once parsed (or req.body itself): fields of the Book schema
Details ==
    { [title |-> "t1"], [title |-> "t2"],
      [averageRating |-> <<5, 1>>], [ratings |-> <<>>], [userId |-> 2] }

\* Authorization headers: a token this server signed for userId less than
\* 24 hours ago, no header, a header without a token, a token of user 1 that
\* has expired, a token for user 1 signed with another secret
NoToken == [kind |-> "none", userId |-> 0]
ValidTokens == { [kind |-> "valid", userId |-> u] : u \in Users }
BadTokens ==
    { [kind |-> "missing", userId |-> 0], [kind |-> "malformed", userId |-> 0],
      [kind |-> "expired", userId |-> 1], [kind |-> "badsig", userId |-> 1] }
Tokens == ValidTokens \cup BadTokens

(***************************************************************************)
(* Arithmetic on averageRating.                                            *)
(***************************************************************************)
RECURSIVE GCD(_, _)
GCD(a, b) == IF b = 0 THEN a ELSE GCD(b, a % b)

\* the number n / d
Quotient(n, d) == LET g == GCD(n, d) IN <<n \div g, d \div g>>

RECURSIVE SumGrades(_)
\* book.ratings.reduce((acc, cur) => acc + cur.grade, 0)
SumGrades(ratings) ==
    IF ratings = <<>> THEN 0
    ELSE SumGrades(Tail(ratings)) + Head(ratings).grade

\* averageRating as the rate handler computes it after the push
AverageOf(ratings) == Quotient(SumGrades(ratings), Len(ratings))

(***************************************************************************)
(* Requests and responses.                                                 *)
(***************************************************************************)
Request(op, tok, id, grade, det, file, ok, email, password) ==
    [op |-> op, pc |-> "start", tok |-> tok, id |-> id, grade |-> grade,
     det |-> det, file |-> file, ok |-> ok, email |-> email,
     password |-> password, img |-> 0, avg |-> <<0, 1>>]

Pending == BagToSet(inflight)

\* res.status(code).json(body) by the handler of r.  code 0 records a handler
\* that ended without sending any response; fault names the call of the
\* handler that failed, "none" when none did.
Reply(r, code, body, fault) ==
    last' = [op |-> r.op, userId |-> r.tok.userId, code |-> code,
             body |-> body, fault |-> fault]

\* the first step of the handler of r ends the request
Respond(r, code, body, fault) ==
    /\ inflight' = inflight
    /\ Reply(r, code, body, fault)

\* the first step of the handler of r suspends on a call, as r2
Suspend(r2) ==
    /\ inflight' = inflight (+) SetToBag({r2})
    /\ last' = last

\* a later step of the handler of r ends the request
Finish(r, code, body, fault) ==
    /\ inflight' = inflight (-) SetToBag({r})
    /\ Reply(r, code, body, fault)

(***************************************************************************)
(* middleware/auth.js                                                      *)
(***************************************************************************)
\* the signature is verified, the expiry is not
VerifyIgnoringExpiry(tok) ==
    IF tok.kind \in {"valid", "expired"} THEN [ok |-> TRUE, userId |-> tok.userId]
    ELSE [ok |-> FALSE, userId |-> 0]

\* jwt.verify(req.headers.authorization.split(" ")[1], secret)
Verify(tok) ==
    IF tok.kind = "valid" THEN [ok |-> TRUE, userId |-> tok.userId]
    ELSE [ok |-> FALSE, userId |-> 0]

\* catch (error) { res.status(401).json({ message }) }
Unauthorized(r) ==
    /\ ~Verify(r.tok).ok
    /\ Respond(r, 401, "message", "none")
    /\ UNCHANGED <<books, files, nextBook, nextFile, unlinks, users, top>>

(***************************************************************************)
(* POST /api/books/:id/rating                                              *)
(***************************************************************************)
\* the check made on the first entry only
ExistingRatingFirst(ratings, userId) ==
    ratings # <<>> /\ ratings[1].userId = userId

\* book.ratings.find((r) => r.userId === req.userData.userId)
ExistingRating(ratings, userId) ==
    \E i \in 1..Len(ratings) : ratings[i].userId = userId

RateFind(r) ==
    /\ Verify(r.tok).ok
    /\ UNCHANGED <<books, files, nextBook, nextFile, unlinks, users, top>>
    /\ IF r.grade < 0 \/ r.grade > 5
       THEN Respond(r, 400, "message", "none")
       ELSE \/ Respond(r, 400, "error", "findOne")       \* findOne rejects
            \/ IF r.id \notin DOMAIN books
               THEN Respond(r, 404, "message", "none")
               ELSE IF ExistingRating(books[r.id].ratings, Verify(r.tok).userId)
               THEN Respond(r, 403, "message", "none")
               ELSE LET pushed == Append(books[r.id].ratings,
                                    [userId |-> Verify(r.tok).userId, grade |-> r.grade])
                    IN Suspend([r EXCEPT !.pc = "save", !.avg = AverageOf(pushed)])

\* book.save(): the document's changes are the push on ratings and the new
\* averageRating; they are applied to the stored document
RateSave(r) ==
    /\ r.pc = "save"
    /\ UNCHANGED <<files, nextBook, nextFile, unlinks, users, top>>
    /\ \/ /\ r.id \in DOMAIN books
          /\ books' = [books EXCEPT ![r.id] =
                 [@ EXCEPT !.ratings = Append(@, [userId |-> r.tok.userId, grade |-> r.grade]),
                           !.averageRating = r.avg]]
          /\ Finish(r, 200, "book", "none")
       \/ /\ books' = books                               \* save rejects
          /\ Finish(r, 400, "error", "save")

(***************************************************************************)
(* utils/imageProcessor.js                                                 *)
(***************************************************************************)
\* compressImage writes images/<filename> and returns its path
CompressImage ==
    /\ files' = files \cup {nextFile}
    /\ nextFile' = nextFile + 1

(***************************************************************************)
(* POST /api/books                                                         *)
(***************************************************************************)
\* new Book({ userId, title, ..., imageUrl, averageRating: 0, ratings: [] })
NewBook(userId, det, imageUrl) ==
    [userId |-> userId,
     title |-> IF "title" \in DOMAIN det THEN det.title ELSE "",
     imageUrl |-> imageUrl, averageRating |-> <<0, 1>>, ratings |-> <<>>]

\* book.save(): the store inserts the document under a fresh _id
BookSave(r, imageUrl) ==
    /\ books' = (nextBook :> NewBook(Verify(r.tok).userId, r.det, imageUrl)) @@ books
    /\ nextBook' = nextBook + 1

CreateStart(r) ==
    /\ Verify(r.tok).ok
    /\ UNCHANGED <<unlinks, users, top>>
    /\ IF ~r.ok
       THEN /\ Respond(r, 400, "message", "none")          \* JSON.parse throws
            /\ UNCHANGED <<books, files, nextBook, nextFile>>
       ELSE IF r.file
       THEN /\ UNCHANGED <<books, nextBook>>
            /\ \/ /\ CompressImage
                  /\ Suspend([r EXCEPT !.pc = "save", !.img = nextFile])
               \/ /\ UNCHANGED <<files, nextFile>>
                  /\ Respond(r, 400, "error", "compressImage")
       ELSE /\ UNCHANGED <<files, nextFile>>
            /\ \/ /\ BookSave(r, 0)
                  /\ Respond(r, 201, "message", "none")
               \/ /\ UNCHANGED <<books, nextBook>>
                  /\ Respond(r, 400, "error", "save")

CreateSave(r) ==
    /\ r.pc = "save"
    /\ UNCHANGED <<files, nextFile, unlinks, users, top>>
    /\ \/ /\ BookSave(r, r.img)
          /\ Finish(r, 201, "message", "none")
       \/ /\ UNCHANGED <<books, nextBook>>
          /\ Finish(r, 400, "error", "save")

(***************************************************************************)
(* PUT /api/books/:id                                                      *)
(***************************************************************************)
\* { ...parsedBook, imageUrl }
WithImage(det, imageUrl) ==
    [f \in DOMAIN det \cup {"imageUrl"} |->
        IF f = "imageUrl" THEN imageUrl ELSE det[f]]

\* the stored document after the update { ...bookData }
Assign(book, bookData) ==
    [f \in DOMAIN book |-> IF f \in DOMAIN bookData THEN bookData[f] ELSE book[f]]

\* the filter { _id: bookId }
UpdateFilterById(id, userId) ==
    id \in DOMAIN books

\* the filter { _id: bookId, userId: req.userData.userId }
UpdateFilter(id, userId) ==
    id \in DOMAIN books /\ books[id].userId = userId

\* result.n: the documents the filter has matched
NMatched(id, userId, bookData) ==
    IF UpdateFilter(id, userId) THEN 1 ELSE 0

\* result.nModified: the documents the update has changed
NModified(id, userId, bookData) ==
    IF UpdateFilter(id, userId) /\ Assign(books[id], bookData) # books[id]
    THEN 1 ELSE 0

\* Book.updateOne(filter, { ...bookData })
UpdateOne(r, bookData) ==
    books' = IF UpdateFilter(r.id, Verify(r.tok).userId)
             THEN [books EXCEPT ![r.id] = Assign(@, bookData)]
             ELSE books

\* .then((result) => result.nModified === 0 ? 403 : 200)
UpdateStatus(r, bookData) ==
    IF NModified(r.id, Verify(r.tok).userId, bookData) = 0 THEN 403 ELSE 200

UpdateStart(r) ==
    /\ Verify(r.tok).ok
    /\ UNCHANGED <<nextBook, unlinks, users, top>>
    /\ IF r.file
       THEN /\ books' = books
            /\ IF ~r.ok
               THEN /\ UNCHANGED <<files, nextFile>>     \* JSON.parse throws
                    /\ Respond(r, 400, "message", "none")
               ELSE \/ /\ CompressImage
                       /\ Suspend([r EXCEPT !.pc = "store", !.img = nextFile])
                    \/ /\ UNCHANGED <<files, nextFile>>
                       /\ Respond(r, 400, "message", "compressImage")
       ELSE /\ UNCHANGED <<files, nextFile>>
            \* bookData = JSON.parse(req.body.book), or req.body when that throws
            /\ \/ /\ UpdateOne(r, r.det)
                  /\ Respond(r, UpdateStatus(r, r.det), "message", "none")
               \/ /\ books' = books
                  /\ Respond(r, 400, "error", "updateOne")

UpdateStore(r) ==
    /\ r.pc = "store"
    /\ UNCHANGED <<files, nextBook, nextFile, unlinks, users, top>>
    /\ LET bookData == WithImage(r.det, r.img) IN
       \/ /\ UpdateOne(r, bookData)
          /\ Finish(r, UpdateStatus(r, bookData), "message", "none")
       \/ /\ books' = books
          /\ Finish(r, 400, "error", "updateOne")

(***************************************************************************)
(* DELETE /api/books/:id                                                   *)
(***************************************************************************)
\* Book.findOne({ _id: bookId, userId: req.userData.userId })
DeleteFilter(id, userId) ==
    id \in DOMAIN books /\ books[id].userId = userId

\* catch (error) { await session.abortTransaction(); ... res.status(500) }:
\* the response is sent unless abortTransaction throws in its turn
Catch(r, fault) ==
    \/ Reply(r, 500, "error", fault)
    \/ Reply(r, 0, "none", fault)

DeleteFind(r) ==
    /\ Verify(r.tok).ok
    /\ UNCHANGED <<books, files, nextBook, nextFile, users, top>>
    /\ \/ /\ Respond(r, 0, "none", "startSession")      \* rejects outside the try
          /\ unlinks' = unlinks
       \/ /\ Catch(r, "findOne")
          /\ UNCHANGED <<unlinks, inflight>>
       \/ IF ~DeleteFilter(r.id, Verify(r.tok).userId)
          THEN /\ UNCHANGED <<unlinks, inflight>>
               /\ \/ Reply(r, 403, "message", "none")
                  \/ Catch(r, "abortTransaction")
          ELSE LET filename == books[r.id].imageUrl IN
               \* fs.unlink is issued; its callback runs later
               /\ unlinks' = IF filename # 0 THEN unlinks \cup {filename} ELSE unlinks
               /\ Suspend([r EXCEPT !.pc = "commit", !.img = filename])

\* Book.deleteOne({ _id: bookId }) and session.commitTransaction()
DeleteCommit(r) ==
    /\ r.pc = "commit"
    /\ UNCHANGED <<files, nextBook, nextFile, unlinks, users, top>>
    /\ inflight' = inflight (-) SetToBag({r})
    /\ \/ /\ books' = [id \in DOMAIN books \ {r.id} |-> books[id]]
          /\ Reply(r, 200, "message", "none")
       \/ /\ books' = books
          /\ Catch(r, "commitTransaction")

\* the callback of fs.unlink(imagePath, (err) => ...)
Unlink(f) ==
    /\ f \in unlinks
    /\ unlinks' = unlinks \ {f}
    /\ \/ files' = files \ {f}
       \/ files' = files                                 \* err is logged
    /\ UNCHANGED <<books, nextBook, nextFile, users, inflight, last, top>>

(***************************************************************************)
(* GET /api/books/:id                                                      *)
(***************************************************************************)
\* Book.findOne({ _id }) on the collection store: 404 if (!book), else 200
GetStatus(store, id) == IF id \in DOMAIN store THEN 200 ELSE 404

(***************************************************************************)
(* Requests received on the protected book routes.                         *)
(***************************************************************************)
\* number of requests of the route op in flight
InFlight(op) ==
    BagCardinality([r \in {x \in Pending : x.op = op} |-> inflight[r]])

RECURSIVE TotalRatings(_)
TotalRatings(ids) ==
    IF ids = {} THEN 0
    ELSE LET id == CHOOSE i \in ids : TRUE
         IN Len(books[id].ratings) + TotalRatings(ids \ {id})

\* Requests carrying a bad token are one per route, book and kind of token.
CreateRequests ==
    { Request("create", tok, 0, 0, [title |-> "t1"], file, ok, "", 0) :
        tok \in ValidTokens, file \in BOOLEAN, ok \in BOOLEAN }
    \cup
    { Request("create", tok, 0, 0, [title |-> "t1"], FALSE, TRUE, "", 0) :
        tok \in BadTokens }

\* every kind of details without a file, an ordinary edit with a file or
\* with a book field that is not JSON
UpdateRequests ==
    { Request("update", tok, id, 0, det, FALSE, TRUE, "", 0) :
        tok \in ValidTokens, id \in BookIds, det \in Details }
    \cup
    { Request("update", tok, id, 0, [title |-> "t2"], file, ok, "", 0) :
        tok \in ValidTokens, id \in BookIds, file \in BOOLEAN, ok \in BOOLEAN }
    \cup
    { Request("update", tok, id, 0, [title |-> "t2"], FALSE, TRUE, "", 0) :
        tok \in BadTokens, id \in BookIds }

DeleteRequests ==
    { Request("delete", tok, id, 0, NoDetails, FALSE, TRUE, "", 0) :
        tok \in Tokens, id \in BookIds }

RateRequests ==
    { Request("rate", tok, id, grade, NoDetails, FALSE, TRUE, "", 0) :
        tok \in ValidTokens, id \in BookIds, grade \in Grades }
    \cup
    { Request("rate", tok, id, 4, NoDetails, FALSE, TRUE, "", 0) :
        tok \in BadTokens, id \in BookIds }

ProtectedRequests ==
    CreateRequests \cup UpdateRequests \cup DeleteRequests \cup RateRequests

\* a rate request that gets as far as the push on ratings
WouldPush(r) ==
    /\ r.id \in DOMAIN books
    /\ \A i \in 1..Len(books[r.id].ratings) : books[r.id].ratings[i].userId # r.tok.userId

\* the requests the model lets in, within its bounds
Admit(r) ==
    /\ BagCardinality(inflight) < MaxInFlight
    /\ r.op = "create" => nextBook + InFlight("create") <= MaxBooks
    /\ r.file => nextFile <= MaxFiles
    /\ (r.op = "rate" /\ WouldPush(r)) =>
            TotalRatings(DOMAIN books) + InFlight("rate") < MaxRatings

NoResponse ==
    [op |-> "none", userId |-> 0, code |-> 0, body |-> "none", fault |-> "none"]

Init ==
    /\ books = <<>>
    /\ files = {}
    /\ nextBook = 1
    /\ nextFile = 1
    /\ unlinks = {}
    /\ users = {}
    /\ inflight = EmptyBag
    /\ last = NoResponse
    /\ top = <<>>

\* the first step taken for the request r
Handle(r) ==
    \/ Unauthorized(r)
    \/ r.op = "create" /\ CreateStart(r)
    \/ r.op = "update" /\ UpdateStart(r)
    \/ r.op = "delete" /\ DeleteFind(r)
    \/ r.op = "rate" /\ RateFind(r)

Reject == \E r \in ProtectedRequests : Admit(r) /\ Unauthorized(r)
CreatePlain == \E r \in CreateRequests : ~r.file /\ Admit(r) /\ CreateStart(r)
UpdatePlain == \E r \in UpdateRequests : ~r.file /\ Admit(r) /\ UpdateStart(r)
Create == \E r \in CreateRequests : Admit(r) /\ CreateStart(r)
CreateResume == \E r \in Pending : r.op = "create" /\ CreateSave(r)
Update == \E r \in UpdateRequests : Admit(r) /\ UpdateStart(r)
UpdateResume == \E r \in Pending : r.op = "update" /\ UpdateStore(r)
Delete == \E r \in DeleteRequests : Admit(r) /\ DeleteFind(r)
DeleteResume == \E r \in Pending : r.op = "delete" /\ DeleteCommit(r)
Rate == \E r \in RateRequests : Admit(r) /\ RateFind(r)
RateResume == \E r \in Pending : r.op = "rate" /\ RateSave(r)
UnlinkDone == \E f \in unlinks : Unlink(f)

\* the protected book routes, their requests interleaved
Next ==
    \/ Reject
    \/ Create \/ CreateResume
    \/ Update \/ UpdateResume
    \/ Delete \/ DeleteResume
    \/ Rate \/ RateResume
    \/ UnlinkDone

Spec == Init /\ [][Next]_vars

\* create, update and rate requests without a file, interleaved
NextRatings ==
    \/ Reject
    \/ CreatePlain
    \/ UpdatePlain
    \/ Rate \/ RateResume

SpecRatings == Init /\ [][NextRatings]_vars

\* create, update and delete requests, interleaved
NextOwner ==
    \/ Reject
    \/ Create \/ CreateResume
    \/ Update \/ UpdateResume
    \/ Delete \/ DeleteResume
    \/ UnlinkDone

SpecOwner == Init /\ [][NextOwner]_vars

(***************************************************************************)
(* routes/auth.js                                                          *)
(***************************************************************************)
\* bcrypt.hash(password, 10): the stored hash is not the password
Hash(password) == password + 10

\* bcrypt.compare(password, user.password)
Compare(password, hash) == Hash(password) = hash

\* the User collection refuses a second document with the same email
EmailTaken(email) == \E u \in users : u.email = email

AuthRequests(op) ==
    { Request(op, NoToken, 0, 0, NoDetails, FALSE, TRUE, email, password) :
        email \in Emails, password \in Passwords }

\* POST /api/auth/signup
Signup(r) ==
    /\ UNCHANGED <<books, files, nextBook, nextFile, unlinks, top>>
    /\ IF r.password = 0
       THEN \* bcrypt.hash rejects and the promise has no catch
            /\ users' = users
            /\ Respond(r, 0, "none", "hash")
       ELSE \/ /\ ~EmailTaken(r.email)
               /\ users' = users \cup {[email |-> r.email, password |-> Hash(r.password)]}
               /\ Respond(r, 201, "message", "none")
            \/ /\ users' = users                          \* user.save() rejects
               /\ Respond(r, 400, "error", "save")

\* POST /api/auth/login
Login(r) ==
    /\ UNCHANGED <<books, files, nextBook, nextFile, unlinks, users, top>>
    /\ \/ \* User.findOne rejects and the promise has no catch
          Respond(r, 0, "none", "findOne")
       \/ IF ~EmailTaken(r.email)
          THEN Respond(r, 401, "message", "none")
          ELSE LET user == CHOOSE u \in users : u.email = r.email IN
               IF r.password = 0
               THEN \* bcrypt.compare rejects and the promise has no catch
                    Respond(r, 0, "none", "compare")
               ELSE IF ~Compare(r.password, user.password)
               THEN Respond(r, 401, "message", "none")
               ELSE Respond(r, 200, "token", "none")

SignupStep == \E r \in AuthRequests("signup") : Signup(r)
LoginStep == \E r \in AuthRequests("login") : Login(r)

NextAuth == SignupStep \/ LoginStep

SpecAuth == Init /\ [][NextAuth]_vars

(***************************************************************************)
(* The routes that only read the book store.                               *)
(***************************************************************************)
\* sort key { averageRating: 1 }
BeforeAscending(a, b) == a.averageRating[1] * b.averageRating[2] < b.averageRating[1] * a.averageRating[2]

\* sort key { averageRating: -1 }: a comes before b
Before(a, b) == a.averageRating[1] * b.averageRating[2] > b.averageRating[1] * a.averageRating[2]

RECURSIVE Insert(_, _)
\* doc put after the documents of sorted that do not come after it
Insert(doc, sorted) ==
    IF sorted = <<>> THEN <<doc>>
    ELSE IF Before(doc, Head(sorted)) THEN <<doc>> \o sorted
    ELSE <<Head(sorted)>> \o Insert(doc, Tail(sorted))

RECURSIVE Sort(_)
\* .sort({ averageRating: -1 }) of the documents found, in the order found
Sort(docs) ==
    IF docs = <<>> THEN <<>>
    ELSE Insert(docs[Len(docs)], Sort(SubSeq(docs, 1, Len(docs) - 1)))

\* .limit(n)
Limit(docs, n) == SubSeq(docs, 1, IF Len(docs) < n THEN Len(docs) ELSE n)

\* the documents as the response carries them
Document(id) == [id |-> id, averageRating |-> books[id].averageRating]

\* Book.find(): the stored documents in some order of the store's choosing
Orders ==
    { order \in [1..Cardinality(DOMAIN books) -> DOMAIN books] :
        \A i, j \in DOMAIN order : i # j => order[i] # order[j] }

\* Book.find().sort({ averageRating: -1 }).limit(3)
BestRating(order) == Limit(Sort([i \in DOMAIN order |-> Document(order[i])]), 3)

ReadRequest(op, id) ==
    Request(op, NoToken, id, 0, NoDetails, FALSE, TRUE, "", 0)

ReadOnly == UNCHANGED <<books, files, nextBook, nextFile, unlinks, users>>

\* GET /api/books
List ==
    /\ ReadOnly /\ top' = top
    /\ \/ Respond(ReadRequest("list", 0), 200, "books", "none")
       \/ Respond(ReadRequest("list", 0), 400, "error", "find")

\* GET /api/books/bestrating
GetBestRating ==
    /\ ReadOnly
    /\ \/ \E order \in Orders :
             /\ top' = BestRating(order)
             /\ Respond(ReadRequest("bestrating", 0), 200, "books", "none")
       \/ /\ top' = top
          /\ Respond(ReadRequest("bestrating", 0), 400, "error", "find")

\* GET /api/books/:id
GetOne ==
    \E id \in 1..(MaxStored + 1) :
        /\ ReadOnly /\ top' = top
        /\ \/ IF GetStatus(books, id) = 404
              THEN Respond(ReadRequest("get", id), 404, "message", "none")
              ELSE Respond(ReadRequest("get", id), 200, "book", "none")
           \/ Respond(ReadRequest("get", id), 400, "error", "findOne")

\* books as create and rate requests leave them
SampleBooks ==
    { [userId |-> 1, title |-> "t1", imageUrl |-> 0, ratings |-> rs,
       averageRating |-> IF rs = <<>> THEN <<0, 1>> ELSE AverageOf(rs)] :
        rs \in { <<>>,
                 <<[userId |-> 1, grade |-> 4]>>,
                 <<[userId |-> 2, grade |-> 4], [userId |-> 3, grade |-> 5]>>,
                 <<[userId |-> 1, grade |-> 5]>> } }

InitRead ==
    /\ \E n \in 0..MaxStored :
          /\ books \in [1..n -> SampleBooks]
          /\ nextBook = n + 1
    /\ files = {}
    /\ nextFile = 1
    /\ unlinks = {}
    /\ users = {}
    /\ inflight = EmptyBag
    /\ last = NoResponse
    /\ top = <<>>

NextRead == List \/ GetBestRating \/ GetOne

SpecRead == InitRead /\ [][NextRead]_vars

(***************************************************************************)
(* Properties.                                                             *)
(***************************************************************************)
Stored == DOMAIN books

\* a / b = c / d for the fraction <<a, b>> and the numbers c, d
EqualsQuotient(avg, c, d) == avg[1] * d = c * avg[2]

\* C1: for every stored book, averageRating is the arithmetic mean of the
\* grades of its ratings, and 0 when it has no ratings.
AverageIsMean ==
    \A id \in Stored :
        LET b == books[id] IN
        IF b.ratings = <<>> THEN b.averageRating[1] = 0
        ELSE EqualsQuotient(b.averageRating, SumGrades(b.ratings), Len(b.ratings))

\* C2: no userId occurs twice in the ratings of a book, whatever the
\* interleaving of the rate requests.
OneRatingPerUser ==
    \A id \in Stored :
        \A i, j \in 1..Len(books[id].ratings) :
            i # j => books[id].ratings[i].userId # books[id].ratings[j].userId

\* C3: a rate request with a grade in 0..5 by a user who has an entry in the
\* ratings of the book is answered with 403, unless the store read fails, and
\* in both cases writes nothing: ratings and averageRating stay as they are.
SecondRatingRejected ==
    [][\A r \in RateRequests :
          ( /\ r.tok \in ValidTokens
            /\ r.grade >= 0 /\ r.grade <= 5
            /\ r.id \in Stored
            /\ \E i \in 1..Len(books[r.id].ratings) :
                   books[r.id].ratings[i].userId = r.tok.userId
            /\ Admit(r) /\ RateFind(r) )
          => /\ last'.op = "rate"
             /\ last'.fault = "none" => last'.code = 403
             /\ inflight' = inflight
             /\ books' = books]_vars

\* two users have rated 4 and 5, the average is 4.5, and a further rating
\* has been rejected with 403
SecondRatingRejectedWitness ==
    /\ last.op = "rate" /\ last.code = 403
    /\ \E id \in Stored :
          LET b == books[id] IN
          /\ Len(b.ratings) = 2
          /\ b.ratings[1].grade = 4 /\ b.ratings[2].grade = 5
          /\ b.ratings[1].userId # b.ratings[2].userId
          /\ b.averageRating = <<9, 2>>

\* r is a request on a stored book by a user who does not own it
ByNonOwner(r) ==
    /\ r.tok \in ValidTokens
    /\ r.id \in Stored
    /\ books[r.id].userId # r.tok.userId

\* the handler step has answered 403 unless one of its calls failed, and the
\* book r.id is as it was, with its image file, and a get finds it
Denied(r) ==
    /\ last'.op = r.op
    /\ last'.fault = "none" => last'.code = 403
    /\ books' = books
    /\ unlinks' = unlinks
    /\ books[r.id].imageUrl \in files => books[r.id].imageUrl \in files'
    /\ GetStatus(books', r.id) = 200

DeletedWithImage ==
    [][\A r \in Pending :
          (r.op = "delete" /\ DeleteCommit(r) /\ last'.code = 200)
          => /\ GetStatus(books', r.id) = 404
             /\ r.img # 0 => r.img \notin files']_vars

\* C6: a request on a protected route with a missing, malformed, expired or
\* badly signed token is answered with 401 by the middleware, and the book
\* store and the image storage are left as they are.
BadTokenRejected ==
    [][\A r \in ProtectedRequests :
          (r.tok \in BadTokens /\ Admit(r) /\ Handle(r))
          => /\ last' = [op |-> r.op, userId |-> r.tok.userId, code |-> 401,
                         body |-> "message", fault |-> "none"]
             /\ UNCHANGED <<books, files, nextBook, nextFile, unlinks, inflight>>]_vars

\* a request has been answered 401 while a book and its image are stored
BadTokenRejectedWitness ==
    /\ last.code = 401
    /\ \E id \in Stored : books[id].imageUrl \in files

\* the details leave every field of the stored book as it is
ChangesNothing(bookData, book) ==
    \A f \in DOMAIN bookData \cap DOMAIN book : bookData[f] = book[f]

ByOwner(r) ==
    /\ r.tok \in ValidTokens
    /\ r.id \in Stored
    /\ books[r.id].userId = r.tok.userId

RatingsOnlyGrow ==
    [][\A id \in Stored \cap DOMAIN books' :
          \/ books'[id].ratings = books[id].ratings
          \/ /\ Len(books'[id].ratings) = Len(books[id].ratings) + 1
             /\ SubSeq(books'[id].ratings, 1, Len(books[id].ratings)) = books[id].ratings
             /\ last'.op = "rate" /\ last'.code = 200]_vars

\* C7: every request whose calls have all completed has received a response,
\* and the response to a request one of whose calls failed is an error body
\* with a message or error field.
EveryRequestAnswered ==
    last.op # "none" =>
        /\ last.code # 0
        /\ last.fault # "none" => last.body \in {"message", "error"}

\* a >= b for the fractions a, b
AtLeast(a, b) == a[1] * b[2] >= b[1] * a[2]

\* C9: bestrating returns at most 3 documents, each of a stored book, in
\* non-increasing order of averageRating, and no stored book left out has an
\* averageRating greater than one of those returned.
TopRatedSorted ==
    (last.op = "bestrating" /\ last.code = 200) =>
        /\ Len(top) <= 3
        /\ \A i \in 1..Len(top) :
              /\ top[i].id \in Stored
              /\ top[i].averageRating = books[top[i].id].averageRating
        /\ \A i, j \in 1..Len(top) :
              i < j => AtLeast(top[i].averageRating, top[j].averageRating)
        /\ \A id \in Stored :
              (\A i \in 1..Len(top) : top[i].id # id) =>
                  \A i \in 1..Len(top) :
                      AtLeast(top[i].averageRating, books[id].averageRating)

\* three of four stored books have been returned, the averages differing
TopRatedSortedWitness ==
    /\ last.op = "bestrating" /\ last.code = 200
    /\ Cardinality(Stored) = 4
    /\ Len(top) = 3
    /\ top[1].averageRating # top[3].averageRating
    /\ \E id \in Stored : books[id].averageRating # top[3].averageRating
                           /\ \A i \in 1..3 : top[i].id # id

\* C11: a delete removes the image file only together with the book record:
\* every stored book that refers to an image file, and that no delete request
\* is working on, has that file in storage, also after a delete whose
\* deleteOne or commit failed and that was answered with 500.
ImageKeptWithRecord ==
    \A id \in Stored :
        ( /\ books[id].imageUrl # 0
          /\ ~\E r \in Pending : r.op = "delete" /\ r.id = id )
        => books[id].imageUrl \in files

\* C12: the userId of a stored book stays the one of the user whose token
\* created it, whatever an update's details contain.
OwnerNeverChanges ==
    [][\A id \in Stored \cap DOMAIN books' :
          books'[id].userId = books[id].userId]_vars

====
